---- MODULE Spec2Model ----
(***************************************************************************)
(* Carrier manager of baseline-stage-1.py: channels are assigned to the    *)
(* beams of a padded (n_i + 4) x (n_j + 8) grid.  channel_list is the grid *)
(* (0 = unallocated, otherwise the carrier's unique code), and             *)
(* allocated_carriers is the dict from a carrier code 'i:j:channel:u_code' *)
(* to the priority stored for it, kept as the sequence of its entries in   *)
(* insertion order (the order in which Python enumerates it).              *)
(***************************************************************************)
EXTENDS Integers, Sequences, FiniteSets, TLC

VARIABLES channel_list, allocated_carriers, new_carrier_list, last

vars == <<channel_list, allocated_carriers, new_carrier_list, last>>

(* ------------------------------ bounds -------------------------------- *)

\* n_i, n_j: beams per axis (14 x 14 in the script), scaled down; 5 x 9 is
\* the smallest extent in which one beam has all 18 neighbours in range.
N_I == 5
N_J == 9
\* channels per beam (40 in the script), scaled down.
NChan == 2
\* unique codes of the requests are 0..MaxUcode.
MaxUcode == 2
\* baseline priorities of the requests are 0..MaxBaseline.
MaxBaseline == 1
\* requests target the first NReqBeams beams of RequestBeamOrder.
NReqBeams == 2

(* -------------------------- program constants ------------------------- *)

\* the score added when the channel is allocated in the target beam itself
SelfPenalty == 100
\* rows and columns added around the n_i x n_j beams
PadRows == 4
PadCols == 8
\* first in-range row and column (generate_random_carrier)
FirstRow == 2
FirstCol == 4

Rows == 0 .. (N_I + PadRows - 1)
Cols == 0 .. (N_J + PadCols - 1)
Chans == 0 .. (NChan - 1)
Ucodes == 0 .. MaxUcode
Baselines == 0 .. MaxBaseline

\* the beams generate_random_carrier draws from
InRangeBeams == {b \in Rows \X Cols :
                    /\ b[1] >= FirstRow /\ b[1] < N_I + FirstRow
                    /\ b[2] >= FirstCol /\ b[2] < N_J + FirstCol}

\* np.zeros(shape = [n_i + 4, n_j + 8, channels])
EmptyGrid == [i \in Rows |-> [j \in Cols |-> [c \in Chans |-> 0]]]

(* ----------------------- create_neighbour_coords ---------------------- *)

\* the third loop run over [c_i, c_i+2] and not [c_i-2, c_i+2]: the centre
\* and two coordinates of the second loop's row are produced
create_neighbour_coordsFromCentreRow(c_i, c_j) ==
    << <<c_i - 1, c_j - 1>>, <<c_i - 1, c_j + 1>>,
       <<c_i - 1, c_j - 3>>, <<c_i - 1, c_j + 3>>,
       <<c_i + 1, c_j - 1>>, <<c_i + 1, c_j + 1>>,
       <<c_i + 1, c_j - 3>>, <<c_i + 1, c_j + 3>>,
       <<c_i, c_j - 2>>, <<c_i, c_j + 2>>,
       <<c_i, c_j - 4>>, <<c_i, c_j + 4>>,
       <<c_i, c_j - 1>>, <<c_i, c_j>>, <<c_i, c_j + 1>>,
       <<c_i + 2, c_j - 1>>, <<c_i + 2, c_j>>, <<c_i + 2, c_j + 1>> >>

\* the first loop run over [c_i-1, c_i+3] and not [c_i-1, c_i+1]: row
\* c_i+3 is past the two rows added below the beams
create_neighbour_coordsThreeRowsDown(c_i, c_j) ==
    << <<c_i - 1, c_j - 1>>, <<c_i - 1, c_j + 1>>,
       <<c_i - 1, c_j - 3>>, <<c_i - 1, c_j + 3>>,
       <<c_i + 3, c_j - 1>>, <<c_i + 3, c_j + 1>>,
       <<c_i + 3, c_j - 3>>, <<c_i + 3, c_j + 3>>,
       <<c_i, c_j - 2>>, <<c_i, c_j + 2>>,
       <<c_i, c_j - 4>>, <<c_i, c_j + 4>>,
       <<c_i - 2, c_j - 1>>, <<c_i - 2, c_j>>, <<c_i - 2, c_j + 1>>,
       <<c_i + 2, c_j - 1>>, <<c_i + 2, c_j>>, <<c_i + 2, c_j + 1>> >>

\* the second loop run over [c_j-2, c_j+2, c_j-4, c_j+3]: the offset (0, 4)
\* is replaced by (0, 3), whose opposite (0, -3) is not produced
create_neighbour_coordsLopsided(c_i, c_j) ==
    << <<c_i - 1, c_j - 1>>, <<c_i - 1, c_j + 1>>,
       <<c_i - 1, c_j - 3>>, <<c_i - 1, c_j + 3>>,
       <<c_i + 1, c_j - 1>>, <<c_i + 1, c_j + 1>>,
       <<c_i + 1, c_j - 3>>, <<c_i + 1, c_j + 3>>,
       <<c_i, c_j - 2>>, <<c_i, c_j + 2>>,
       <<c_i, c_j - 4>>, <<c_i, c_j + 3>>,
       <<c_i - 2, c_j - 1>>, <<c_i - 2, c_j>>, <<c_i - 2, c_j + 1>>,
       <<c_i + 2, c_j - 1>>, <<c_i + 2, c_j>>, <<c_i + 2, c_j + 1>> >>

create_neighbour_coords(c_i, c_j) ==
    << <<c_i - 1, c_j - 1>>, <<c_i - 1, c_j + 1>>,
       <<c_i - 1, c_j - 3>>, <<c_i - 1, c_j + 3>>,
       <<c_i + 1, c_j - 1>>, <<c_i + 1, c_j + 1>>,
       <<c_i + 1, c_j - 3>>, <<c_i + 1, c_j + 3>>,
       <<c_i, c_j - 2>>, <<c_i, c_j + 2>>,
       <<c_i, c_j - 4>>, <<c_i, c_j + 4>>,
       <<c_i - 2, c_j - 1>>, <<c_i - 2, c_j>>, <<c_i - 2, c_j + 1>>,
       <<c_i + 2, c_j - 1>>, <<c_i + 2, c_j>>, <<c_i + 2, c_j + 1>> >>

(* ----------------------------- scan_carriers -------------------------- *)

\* the inner loop over neighbour_coords: one is added for every position
\* of the sequence, from position n on, whose slot of the channel is not 0
\* (positions are counted, so a coordinate listed twice would count twice)
NeighbourScore(cl, coords, channel, n) ==
    Cardinality({m \in n .. Len(coords) :
                    cl[coords[m][1]][coords[m][2]][channel] # 0})

\* the score without the 100 of a channel allocated in the beam itself
ChannelScoreNoSelfPenalty(c_i, c_j, cl, channel) ==
    NeighbourScore(cl, create_neighbour_coords(c_i, c_j), channel, 1)

\* imperfect_channels[channel] after the loop body of scan_carriers
ChannelScore(c_i, c_j, cl, channel) ==
    (IF cl[c_i][c_j][channel] # 0 THEN SelfPenalty ELSE 0)
    + NeighbourScore(cl, create_neighbour_coords(c_i, c_j), channel, 1)

\* good_channels with the comparison taken as <, not <=
RECURSIVE GoodChannelsStrict(_, _, _)
GoodChannelsStrict(imperfect, priority, channel) ==
    IF channel > NChan - 1 THEN << >>
    ELSE (IF imperfect[channel] < priority THEN <<channel>> ELSE << >>)
         \o GoodChannelsStrict(imperfect, priority, channel + 1)

\* good_channels with every admitted channel put in front, not appended:
\* the channels come out in descending order
RECURSIVE GoodChannelsDescending(_, _, _)
GoodChannelsDescending(imperfect, priority, channel) ==
    IF channel > NChan - 1 THEN << >>
    ELSE GoodChannelsDescending(imperfect, priority, channel + 1)
         \o (IF imperfect[channel] <= priority THEN <<channel>> ELSE << >>)

\* good_channels: the channels are visited in ascending order and appended
\* when their score is <= priority
RECURSIVE GoodChannels(_, _, _)
GoodChannels(imperfect, priority, channel) ==
    IF channel > NChan - 1 THEN << >>
    ELSE (IF imperfect[channel] <= priority THEN <<channel>> ELSE << >>)
         \o GoodChannels(imperfect, priority, channel + 1)

\* imperfect_channels as the loop over the channels leaves it
ImperfectChannels(c_i, c_j, cl) ==
    [channel \in Chans |-> ChannelScore(c_i, c_j, cl, channel)]

\* what scan_carriers returns, given the scores it computes
ScanResult(imperfect, priority) ==
    [good_channels |-> GoodChannels(imperfect, priority, 0),
     imperfect_channels |-> imperfect]

scan_carriers(c_i, c_j, cl, priority) ==
    ScanResult(ImperfectChannels(c_i, c_j, cl), priority)

(* -------------------- the dict allocated_carriers --------------------- *)

\* '{i}:{j}:{channel}:{u_code}'
CarrierCode(i, j, channel, ucode) == <<i, j, channel, ucode>>

\* allocated_carriers.keys()
Codes(ac) == {ac[n].code : n \in 1 .. Len(ac)}

\* allocated_carriers[carrier_code], for a code of the dict
PriorityOf(ac, carrier_code) ==
    ac[CHOOSE n \in 1 .. Len(ac) : ac[n].code = carrier_code].priority

\* allocated_carriers[carrier_code] = priority: an existing key keeps its
\* place, a new key goes to the end
DictSet(ac, carrier_code, priority) ==
    IF carrier_code \in Codes(ac)
    THEN [n \in 1 .. Len(ac) |->
             IF ac[n].code = carrier_code
             THEN [code |-> carrier_code, priority |-> priority]
             ELSE ac[n]]
    ELSE Append(ac, [code |-> carrier_code, priority |-> priority])

\* del allocated_carriers[carrier_code]
DictDel(ac, carrier_code) ==
    LET Keep(e) == e.code # carrier_code
    IN  SelectSeq(ac, Keep)

(* ----------------------------- assign_carrier ------------------------- *)

assign_carrier(cl, ac, c_i, c_j, channel, ucode, priority) ==
    [channel_list |-> [cl EXCEPT ![c_i][c_j][channel] = ucode],
     allocated_carriers |->
         DictSet(ac, CarrierCode(c_i, c_j, channel, ucode), priority)]

(* ------------------- convert_to_raw, convert_from_raw ----------------- *)

\* re.split(':', carrier_code)
SplitCode(carrier_code) ==
    [i |-> carrier_code[1], j |-> carrier_code[2],
     channel |-> carrier_code[3], ucode |-> carrier_code[4]]

\* the records with priority 0 written for every carrier (`priorities
\* currently set = 0`) and not the priority the dict holds
convert_to_rawZeroPriority(cl, ac) ==
    [n \in 1 .. Len(ac) |->
        LET k == SplitCode(ac[n].code)
        IN  [i |-> k.i, j |-> k.j, channel |-> k.channel,
             ucode |-> k.ucode, priority |-> 0]]

\* one record per key of allocated_carriers, in the order of the dict
convert_to_raw(cl, ac) ==
    [n \in 1 .. Len(ac) |->
        LET k == SplitCode(ac[n].code)
        IN  [i |-> k.i, j |-> k.j, channel |-> k.channel,
             ucode |-> k.ucode, priority |-> ac[n].priority]]

\* the loop of convert_from_raw over raw_data from record n on: each record
\* sets its key of the dict and writes its unique code to its slot
RECURSIVE FromRawLoop(_, _, _)
FromRawLoop(raw_data, n, st) ==
    IF n > Len(raw_data) THEN st
    ELSE LET c_data == raw_data[n]
         IN  FromRawLoop(raw_data, n + 1,
                 [channel_list |->
                      [st.channel_list EXCEPT
                          ![c_data.i][c_data.j][c_data.channel] = c_data.ucode],
                  allocated_carriers |->
                      DictSet(st.allocated_carriers,
                              CarrierCode(c_data.i, c_data.j, c_data.channel, c_data.ucode),
                              c_data.priority)])

convert_from_raw(raw_data) ==
    FromRawLoop(raw_data, 1,
                [channel_list |-> EmptyGrid, allocated_carriers |-> << >>])

import_data(data) == convert_from_raw(data)

(* ------------------------- base_carrier_manager ----------------------- *)

\* channel_list and allocated_carriers before the for loop: read from data
\* when there is any, empty otherwise
ManagerStart(data) ==
    IF Len(data) > 0
    THEN import_data(data)
    ELSE [channel_list |-> EmptyGrid, allocated_carriers |-> << >>]

\* c_i, c_j, priority, u_code of a request
process_new_carrier(carrier_info) ==
    [i |-> carrier_info.i, j |-> carrier_info.j,
     priority |-> carrier_info.priority, ucode |-> carrier_info.ucode]

\* The while loop of base_carrier_manager.  st holds good_channels and
\* imperfect_channels of the latest scan and the running priority; scans
\* counts the calls of scan_carriers and threshold is the priority the
\* latest call was given.  channel_list is not written between the scans of
\* one request, so every scan of the loop computes the same scores:
\* imperfect is ImperfectChannels(c_i, c_j, channel_list), computed once.
\*
\* The if branch of the loop: scan at the running priority, then
\* priority += 1.
EscalationBody(imperfect, st) ==
    LET s == ScanResult(imperfect, st.priority)
    IN  [good_channels |-> s.good_channels,
         imperfect_channels |-> s.imperfect_channels,
         priority |-> st.priority + 1,
         scans |-> st.scans + 1,
         threshold |-> st.priority]

\* Up to 2^k passes of the loop from st, stopping at the first pass that
\* finds `len(good_channels) == 0` false (the else branch, which breaks).
RECURSIVE EscalationPasses(_, _, _)
EscalationPasses(imperfect, st, k) ==
    IF Len(st.good_channels) # 0
    THEN st
    ELSE IF k = 0
         THEN EscalationBody(imperfect, st)
         ELSE EscalationPasses(imperfect,
                  EscalationPasses(imperfect, st, k - 1), k - 1)

\* The loop run until it breaks, in blocks of 1, 2, 4, ... passes: the
\* same passes in the same order as the `while True` loop, with a nesting
\* of operator calls logarithmic in the number of passes.  It has a value
\* exactly when the loop breaks.
RECURSIVE EscalationFrom(_, _, _)
EscalationFrom(imperfect, st, k) ==
    IF Len(st.good_channels) = 0
    THEN EscalationFrom(imperfect, EscalationPasses(imperfect, st, k), k + 1)
    ELSE st

EscalationLoop(imperfect, st) == EscalationFrom(imperfect, st, 0)

\* the last of good_channels, not the first
SelectedChannelLast(good_channels) == good_channels[Len(good_channels)]

\* the channel handed to assign_carrier: each_new_carrier['good_channels'][0]
SelectedChannel(good_channels) == good_channels[1]

\* the priority handed to assign_carrier: each_new_carrier['priority']
StoredPriority(each_new_carrier, final_priority) == each_new_carrier.priority

(* --------------------------- deallocate_carrier ----------------------- *)

\* the except branch with priority bound (to 0) before the try: the call
\* of assign_carrier goes through and the function returns normally
DeallocateRecoveryReassigns(carrier_code, cl, ac) ==
    LET k == SplitCode(carrier_code)
        a == assign_carrier(cl, ac, k.i, k.j, k.channel, k.ucode, 0)
    IN  [channel_list |-> a.channel_list,
         allocated_carriers |-> a.allocated_carriers,
         outcome |-> "carrier deallocation failed"]

\* The except branch, entered when allocated_carriers[carrier_code] raised
\* KeyError: priority was never bound, so evaluating the arguments of the
\* call of assign_carrier raises UnboundLocalError, which leaves the function.
DeallocateRecovery(carrier_code, cl, ac) ==
    [channel_list |-> cl, allocated_carriers |-> ac,
     outcome |-> "UnboundLocalError"]

\* the try branch without the write of 0 to channel_list
DeallocateFoundKeepsSlot(carrier_code, cl, ac) ==
    [channel_list |-> cl,
     allocated_carriers |-> DictDel(ac, carrier_code),
     outcome |-> "ok"]

\* The try branch: the entry is deleted and the slot is set to 0.
DeallocateFound(carrier_code, cl, ac) ==
    LET k == SplitCode(carrier_code)
    IN  [channel_list |-> [cl EXCEPT ![k.i][k.j][k.channel] = 0],
         allocated_carriers |-> DictDel(ac, carrier_code),
         outcome |-> "ok"]

deallocate_carrier(carrier_code, cl, ac) ==
    IF carrier_code \in Codes(ac)
    THEN DeallocateFound(carrier_code, cl, ac)
    ELSE DeallocateRecovery(carrier_code, cl, ac)

(* ------------------------------- requests ----------------------------- *)

\* the beam with all 18 neighbours in range
CentreBeam == <<FirstRow + 2, FirstCol + 4>>

\* The beams the requests of Spec target, in the order they are added as
\* NReqBeams grows: the centre, two of its neighbours (neighbours of each
\* other too), then beams that are neighbours of none of them.
RequestBeamOrder ==
    << CentreBeam,
       <<CentreBeam[1] + 1, CentreBeam[2] + 1>>,
       <<CentreBeam[1], CentreBeam[2] + 2>>,
       <<FirstRow, FirstCol>>,
       <<FirstRow, FirstCol + 1>> >>

ReqBeams == {RequestBeamOrder[n] : n \in 1 .. NReqBeams}

\* the codes in use: generate_random_carrier draws a code outside them
ActiveUcodes(ac) == {k[4] : k \in Codes(ac)}

\* Carrier codes that may be absent when deallocate_carrier is called with
\* them: channel 0 of the centre beam, under every unique code.
AbsentCodes ==
    {CarrierCode(CentreBeam[1], CentreBeam[2], 0, u) : u \in Ucodes}

NoLast ==
    [op |-> "none", i |-> 0, j |-> 0, channel |-> 0, ucode |-> 0,
     priority |-> 0, good_channels |-> << >>,
     imperfect_channels |-> [c \in Chans |-> 0],
     final_priority |-> 0, scans |-> 0, threshold |-> 0, outcome |-> "none"]

(* ------------------------------- actions ------------------------------ *)

Init ==
    /\ channel_list = EmptyGrid
    /\ allocated_carriers = << >>
    /\ new_carrier_list = << >>
    /\ last = NoLast

\* The body of the for loop of base_carrier_manager for one new carrier, on
\* the channel_list cl and the allocated_carriers ac the call holds: scan,
\* escalate until good_channels is not empty, assign good_channels[0].
\* last records the request and what the loop left in each_new_carrier.
Process(cl, ac, each_new_carrier) ==
    \E c \in {process_new_carrier(each_new_carrier)} :
    \E s0 \in {scan_carriers(c.i, c.j, cl, c.priority)} :
    \E st \in {EscalationLoop(s0.imperfect_channels,
                    [good_channels |-> s0.good_channels,
                     imperfect_channels |-> s0.imperfect_channels,
                     priority |-> c.priority,
                     scans |-> 1,
                     threshold |-> c.priority])} :
    \E a \in {assign_carrier(cl, ac,
                    each_new_carrier.i, each_new_carrier.j,
                    SelectedChannel(st.good_channels), each_new_carrier.ucode,
                    StoredPriority(each_new_carrier, st.priority))} :
        /\ channel_list' = a.channel_list
        /\ allocated_carriers' = a.allocated_carriers
        /\ last' = [NoLast EXCEPT
                      !.op = "allocate",
                      !.i = each_new_carrier.i, !.j = each_new_carrier.j,
                      !.ucode = each_new_carrier.ucode,
                      !.priority = each_new_carrier.priority,
                      !.channel = SelectedChannel(st.good_channels),
                      !.good_channels = st.good_channels,
                      !.imperfect_channels = st.imperfect_channels,
                      !.final_priority = st.priority,
                      !.scans = st.scans,
                      !.threshold = st.threshold,
                      !.outcome = "ok"]

\* base_carrier_manager([new_carrier], data = convert_to_raw(channel_list,
\* allocated_carriers)), as randomly_generate_carriers calls it: the state is
\* read back from its raw records, then the new carrier, drawn as
\* generate_random_carrier draws it, is processed
Allocate ==
    \E b \in ReqBeams, p \in Baselines, u \in Ucodes \ ActiveUcodes(allocated_carriers) :
    \E m \in {ManagerStart(convert_to_raw(channel_list, allocated_carriers))} :
        /\ new_carrier_list = << >>
        /\ Process(m.channel_list, m.allocated_carriers,
                   [i |-> b[1], j |-> b[2], priority |-> p, ucode |-> u])
        /\ UNCHANGED new_carrier_list

\* deallocate_carrier on the code of an active carrier (select_random_carrier)
\* or on one of AbsentCodes
Deallocate ==
    \E carrier_code \in Codes(allocated_carriers) \cup AbsentCodes :
    \E r \in {deallocate_carrier(carrier_code, channel_list, allocated_carriers)} :
    \E k \in {SplitCode(carrier_code)} :
        /\ new_carrier_list = << >>
        /\ channel_list' = r.channel_list
        /\ allocated_carriers' = r.allocated_carriers
        /\ last' = [NoLast EXCEPT
                      !.op = "deallocate",
                      !.i = k.i, !.j = k.j, !.channel = k.channel,
                      !.ucode = k.ucode, !.outcome = r.outcome]
        /\ UNCHANGED new_carrier_list

\* scan_carriers called on its own
Scan ==
    \E b \in ReqBeams, p \in Baselines :
    \E s \in {scan_carriers(b[1], b[2], channel_list, p)} :
        /\ new_carrier_list = << >>
        /\ last' = [NoLast EXCEPT
                      !.op = "scan",
                      !.i = b[1], !.j = b[2], !.priority = p,
                      !.good_channels = s.good_channels,
                      !.imperfect_channels = s.imperfect_channels,
                      !.scans = 1, !.threshold = p, !.outcome = "ok"]
        /\ UNCHANGED <<channel_list, allocated_carriers, new_carrier_list>>

Next == Allocate \/ Deallocate \/ Scan

Spec == Init /\ [][Next]_vars

(* ---------------------- a batch that fills a cluster ------------------ *)

\* the 19-beam region of the centre beam: its 18 neighbours, then itself
ClusterBeams == create_neighbour_coords(CentreBeam[1], CentreBeam[2]) \o <<CentreBeam>>

\* new_carrier_list of one call of base_carrier_manager without data: NChan
\* carriers for every beam of the region, all of baseline priority fill,
\* then one more carrier for the centre beam, of baseline priority final.
\* The unique codes are 1, 2, ... in the order of the list.
ClusterBatch(fill, final) ==
    [n \in 1 .. (Len(ClusterBeams) * NChan + 1) |->
        IF n <= Len(ClusterBeams) * NChan
        THEN [i |-> ClusterBeams[((n - 1) \div NChan) + 1][1],
              j |-> ClusterBeams[((n - 1) \div NChan) + 1][2],
              priority |-> fill, ucode |-> n]
        ELSE [i |-> CentreBeam[1], j |-> CentreBeam[2],
              priority |-> final, ucode |-> n]]

InitBatch ==
    /\ channel_list = EmptyGrid
    /\ allocated_carriers = << >>
    /\ new_carrier_list \in {ClusterBatch(fill, final) : fill \in Baselines, final \in Baselines}
    /\ last = NoLast

\* one pass of the for loop of base_carrier_manager over new_carrier_list
BatchStep ==
    /\ new_carrier_list # << >>
    /\ Process(channel_list, allocated_carriers, Head(new_carrier_list))
    /\ new_carrier_list' = Tail(new_carrier_list)

NextBatch == BatchStep

SpecBatch == InitBatch /\ [][NextBatch]_vars

(* ------------------ requests for one beam, in one call ---------------- *)

\* the beam the requests of the scenario target
ScenarioBeam == <<5, 5>>

\* new_carrier_list of one call of base_carrier_manager without data: three
\* requests for ScenarioBeam, of any baseline priorities and of unique codes
\* that differ
ScenarioLists ==
    {<< [i |-> ScenarioBeam[1], j |-> ScenarioBeam[2], priority |-> p[1], ucode |-> u[1]],
        [i |-> ScenarioBeam[1], j |-> ScenarioBeam[2], priority |-> p[2], ucode |-> u[2]],
        [i |-> ScenarioBeam[1], j |-> ScenarioBeam[2], priority |-> p[3], ucode |-> u[3]] >> :
        p \in Baselines \X Baselines \X Baselines,
        u \in {v \in Ucodes \X Ucodes \X Ucodes :
                   v[1] # v[2] /\ v[1] # v[3] /\ v[2] # v[3]}}

InitScenario ==
    /\ channel_list = EmptyGrid
    /\ allocated_carriers = << >>
    /\ new_carrier_list \in ScenarioLists
    /\ last = NoLast

SpecScenario == InitScenario /\ [][NextBatch]_vars

(* ------------------ scans of every beam of the range ------------------ *)

\* import_data(data) where nothing has been read yet, on the raw record of
\* one carrier: any beam of the range, any channel, priority 0 (`priorities
\* currently set = 0`) and unique code 1 (a scan only compares the slot
\* with 0)
ImportOne ==
    /\ allocated_carriers = << >>
    /\ \E b \in InRangeBeams, channel \in Chans, u \in {1} :
       \E m \in {import_data(<< [i |-> b[1], j |-> b[2], channel |-> channel,
                                 ucode |-> u, priority |-> 0] >>)} :
           /\ channel_list' = m.channel_list
           /\ allocated_carriers' = m.allocated_carriers
           /\ last' = [NoLast EXCEPT
                         !.op = "import",
                         !.i = b[1], !.j = b[2], !.channel = channel,
                         !.ucode = u, !.outcome = "ok"]
           /\ UNCHANGED new_carrier_list

\* scan_carriers called on its own with the default priority (0), for any
\* beam of the range
ScanAnywhere ==
    \E b \in InRangeBeams :
    \E s \in {scan_carriers(b[1], b[2], channel_list, 0)} :
        /\ last' = [NoLast EXCEPT
                      !.op = "scan",
                      !.i = b[1], !.j = b[2],
                      !.good_channels = s.good_channels,
                      !.imperfect_channels = s.imperfect_channels,
                      !.scans = 1, !.outcome = "ok"]
        /\ UNCHANGED <<channel_list, allocated_carriers, new_carrier_list>>

NextScan == ImportOne \/ ScanAnywhere

SpecScan == Init /\ [][NextScan]_vars

(* ------------------------- reading raw records ------------------------ *)

\* the beams of the records read: one of the range, and the first of the
\* padded grid, which is outside the range
IngestBeams == {CentreBeam, <<0, 0>>}

\* one raw record: `keys=['i', 'j', 'channel', 'priority', 'unique_code']`
IngestRecords ==
    {[i |-> b[1], j |-> b[2], channel |-> channel, ucode |-> u, priority |-> p] :
        b \in IngestBeams, channel \in Chans, u \in Ucodes, p \in Baselines}

\* data: one or two records, the same record twice included
IngestData ==
    {<<r>> : r \in IngestRecords}
        \cup {<<r[1], r[2]>> : r \in IngestRecords \X IngestRecords}

\* import_data(data) where nothing has been read yet
Ingest ==
    /\ allocated_carriers = << >>
    /\ \E data \in IngestData :
       \E m \in {import_data(data)} :
           /\ channel_list' = m.channel_list
           /\ allocated_carriers' = m.allocated_carriers
           /\ last' = [NoLast EXCEPT
                         !.op = "import",
                         !.i = data[Len(data)].i, !.j = data[Len(data)].j,
                         !.channel = data[Len(data)].channel,
                         !.ucode = data[Len(data)].ucode,
                         !.priority = data[Len(data)].priority,
                         !.scans = Len(data),
                         !.outcome = "ok"]
           /\ UNCHANGED new_carrier_list

NextIngest == Ingest

SpecIngest == Init /\ [][NextIngest]_vars

(* --------------- two requests, scan and commit interleaved ------------ *)

\* A request of new_carrier_list with the keys the loop writes to it
\* (imperfect_channels, good_channels, final_priority) and its position:
\* "start" before line 370, "scanned" after the while loop (line 382),
\* "assigned" after assign_carrier (line 385).
InterleavedRequest(b, p, u) ==
    [i |-> b[1], j |-> b[2], priority |-> p, ucode |-> u,
     good_channels |-> << >>, imperfect_channels |-> [c \in Chans |-> 0],
     final_priority |-> 0, pc |-> "start"]

\* two requests for one beam, of unique codes that differ and are not 0
InitInterleaved ==
    /\ channel_list = EmptyGrid
    /\ allocated_carriers = << >>
    /\ new_carrier_list \in
           {<<InterleavedRequest(b, p[1], u[1]), InterleavedRequest(b, p[2], u[2])>> :
               b \in ReqBeams, p \in Baselines \X Baselines,
               u \in {v \in (Ucodes \ {0}) \X (Ucodes \ {0}) : v[1] # v[2]}}
    /\ last = NoLast

\* lines 370-382 for request n: the scan and the while loop, which write
\* their results to the request and leave channel_list alone
ScanStep ==
    \E n \in 1 .. Len(new_carrier_list) :
    \E r \in {new_carrier_list[n]} :
    \E c \in {process_new_carrier(r)} :
    \E s0 \in {scan_carriers(c.i, c.j, channel_list, c.priority)} :
    \E st \in {EscalationLoop(s0.imperfect_channels,
                    [good_channels |-> s0.good_channels,
                     imperfect_channels |-> s0.imperfect_channels,
                     priority |-> c.priority,
                     scans |-> 1,
                     threshold |-> c.priority])} :
        /\ r.pc = "start"
        /\ new_carrier_list' =
               [new_carrier_list EXCEPT
                   ![n] = [r EXCEPT !.good_channels = st.good_channels,
                                    !.imperfect_channels = st.imperfect_channels,
                                    !.final_priority = st.priority,
                                    !.pc = "scanned"]]
        /\ last' = [NoLast EXCEPT
                      !.op = "scan",
                      !.i = r.i, !.j = r.j, !.ucode = r.ucode,
                      !.priority = r.priority,
                      !.good_channels = st.good_channels,
                      !.imperfect_channels = st.imperfect_channels,
                      !.final_priority = st.priority,
                      !.scans = st.scans, !.threshold = st.threshold,
                      !.outcome = "ok"]
        /\ UNCHANGED <<channel_list, allocated_carriers>>

\* lines 384-385 for request n: assign_carrier with the good_channels[0]
\* its scan left in the request
CommitStep ==
    \E n \in 1 .. Len(new_carrier_list) :
    \E r \in {new_carrier_list[n]} :
        /\ r.pc = "scanned"
        /\ \E a \in {assign_carrier(channel_list, allocated_carriers, r.i, r.j,
                           SelectedChannel(r.good_channels), r.ucode,
                           StoredPriority(r, r.final_priority))} :
               /\ channel_list' = a.channel_list
               /\ allocated_carriers' = a.allocated_carriers
        /\ new_carrier_list' = [new_carrier_list EXCEPT ![n] = [r EXCEPT !.pc = "assigned"]]
        /\ last' = [NoLast EXCEPT
                      !.op = "allocate",
                      !.i = r.i, !.j = r.j, !.ucode = r.ucode,
                      !.priority = r.priority,
                      !.channel = SelectedChannel(r.good_channels),
                      !.good_channels = r.good_channels,
                      !.imperfect_channels = r.imperfect_channels,
                      !.final_priority = r.final_priority,
                      !.outcome = "ok"]

NextInterleaved == ScanStep \/ CommitStep

SpecInterleaved == InitInterleaved /\ [][NextInterleaved]_vars

(* ----------------------------- properties ---------------------------- *)

\* the carrier code the latest operation was about
LastCode == CarrierCode(last.i, last.j, last.channel, last.ucode)

\* the channel_list a call of base_carrier_manager on the current state
\* works on: the one read back from the raw records of the state
ManagerGrid ==
    ManagerStart(convert_to_raw(channel_list, allocated_carriers)).channel_list

\* the highest score a channel can have: allocated in the beam itself and
\* in every one of its neighbours
MaxScore == SelfPenalty + Len(create_neighbour_coords(0, 0))

\* C1: no two active carrier codes of allocated_carriers share the same
\* beam and channel.
NoCollision ==
    \A k1 \in Codes(allocated_carriers) : \A k2 \in Codes(allocated_carriers) :
        (k1[1] = k2[1] /\ k1[2] = k2[2] /\ k1[3] = k2[3]) => k1 = k2

\* C2: an allocation makes at most 119 - baseline scans.
BoundedEscalation ==
    last.op = "allocate" => last.scans <= MaxScore + 1 - last.priority

\* C3: the final_priority reported for a request is the threshold of the
\* scan that found a channel.
FinalPriorityIsThreshold ==
    last.op = "allocate" => last.final_priority = last.threshold

\* C4: the priority stored under the new carrier code is the threshold of
\* the scan that found the channel.
StoredPriorityIsFinal ==
    last.op = "allocate" => PriorityOf(allocated_carriers, LastCode) = last.threshold

\* C5: an assignment to a slot that is already allocated fails with
\* SlotOccupied and changes neither channel_list nor allocated_carriers.
AssignRejectsOccupied ==
    [][(last'.op = "allocate" /\ ManagerGrid[last'.i][last'.j][last'.channel] # 0)
          => /\ last'.outcome = "SlotOccupied"
             /\ channel_list' = channel_list
             /\ allocated_carriers' = allocated_carriers]_vars

\* the neighbours of beam b as a set of coordinates
NeighbourSet(b) ==
    LET coords == create_neighbour_coords(b[1], b[2])
    IN  {coords[n] : n \in 1 .. Len(coords)}

\* the score the specification gives channel c of beam b on grid cl: 100 if
\* the channel is occupied at b, plus the number of neighbours of b where
\* it is occupied
InterferenceScore(cl, b, c) ==
    (IF cl[b[1]][b[2]][c] # 0 THEN 100 ELSE 0)
    + Cardinality({n \in NeighbourSet(b) : cl[n[1]][n[2]][c] # 0})

MinScore(score) ==
    CHOOSE m \in {score[c] : c \in Chans} : \A c \in Chans : score[c] >= m

\* the outcomes in which the call ends by raising an exception
Exceptions == {"UnboundLocalError"}

DeallocateActiveFrame ==
    [][(last'.op = "deallocate" /\ LastCode' \in Codes(allocated_carriers))
          => /\ last'.outcome = "ok"
             /\ Codes(allocated_carriers') = Codes(allocated_carriers) \ {LastCode'}
             /\ \A k \in Codes(allocated_carriers') :
                    PriorityOf(allocated_carriers', k) = PriorityOf(allocated_carriers, k)
             /\ channel_list'[last'.i][last'.j][last'.channel] = 0
             /\ \A i \in Rows, j \in Cols, c \in Chans :
                    <<i, j, c>> # <<last'.i, last'.j, last'.channel>>
                        => channel_list'[i][j][c] = channel_list[i][j][c]]_vars

\* an active carrier has just been deallocated while another carrier keeps
\* its entry and its slot
DeallocateActiveSeen ==
    /\ last.op = "deallocate"
    /\ last.outcome = "ok"
    /\ \E k \in Codes(allocated_carriers) : channel_list[k[1]][k[2]][k[3]] = k[4] /\ k[4] # 0

\* C8: after an active carrier code of beam b and channel c is deallocated,
\* a scan of every neighbour of b gives c a score lower by exactly 1, a scan
\* of b gives c a score lower by exactly 100, and the scores of the other
\* channels are unchanged.
DeallocationFreesCapacity ==
    [][(last'.op = "deallocate" /\ LastCode' \in Codes(allocated_carriers))
          => LET b == <<last'.i, last'.j>>
                 c == last'.channel
             IN  /\ \A n \in NeighbourSet(b) \cap InRangeBeams :
                        ChannelScore(n[1], n[2], channel_list', c)
                            = ChannelScore(n[1], n[2], channel_list, c) - 1
                 /\ ChannelScore(b[1], b[2], channel_list', c)
                        = ChannelScore(b[1], b[2], channel_list, c) - 100
                 /\ \A n \in (NeighbourSet(b) \cap InRangeBeams) \cup {b} :
                        \A d \in Chans \ {c} :
                            ChannelScore(n[1], n[2], channel_list', d)
                                = ChannelScore(n[1], n[2], channel_list, d)]_vars

\* C9: a scan gives every channel the score 100 * [occupied at the beam]
\* + the number of neighbours where it is occupied, a value of 0..18 or
\* 100..118; good_channels holds exactly the channels whose score is <= the
\* threshold, in ascending order; channel_list and allocated_carriers are
\* unchanged.
ScanContract ==
    [][last'.op = "scan"
          => LET b == <<last'.i, last'.j>>
                 score == last'.imperfect_channels
                 good == last'.good_channels
             IN  /\ \A c \in Chans :
                        /\ score[c] = InterferenceScore(channel_list, b, c)
                        /\ score[c] \in (0 .. 18) \cup (100 .. 118)
                 /\ \A n \in 1 .. (Len(good) - 1) : good[n] < good[n + 1]
                 /\ {good[n] : n \in 1 .. Len(good)}
                        = {c \in Chans : score[c] <= last'.priority}
                 /\ channel_list' = channel_list
                 /\ allocated_carriers' = allocated_carriers]_vars

\* a scan has just found one channel occupied at the beam and at a
\* neighbour, and the other channel alone within the threshold
ScanSeen ==
    /\ last.op = "scan"
    /\ last.imperfect_channels[0] = 101
    /\ last.good_channels = <<1>>
    /\ last.imperfect_channels[1] = last.priority

\* C10 as claimed: whatever the baseline priority, the assigned channel has
\* the minimum score of the channels of the beam, and the lowest index of
\* the channels at that score.
ReusePreference ==
    [][last'.op = "allocate"
          => LET score == [c \in Chans |->
                             InterferenceScore(ManagerGrid, <<last'.i, last'.j>>, c)]
             IN  /\ score[last'.channel] = MinScore(score)
                 /\ \A c \in Chans :
                        score[c] = MinScore(score) => last'.channel <= c]_vars

\* C10 as amended: when the baseline priority is at most the minimum score
\* of the channels of the beam, the assigned channel has that minimum score
\* and the lowest index of the channels at that score.
ReusePreferenceFromLowBaseline ==
    [][last'.op = "allocate"
          => LET score == [c \in Chans |->
                             InterferenceScore(ManagerGrid, <<last'.i, last'.j>>, c)]
             IN  last'.priority <= MinScore(score)
                    => /\ score[last'.channel] = MinScore(score)
                       /\ \A c \in Chans :
                              score[c] = MinScore(score) => last'.channel <= c]_vars

\* an allocation whose baseline was at most the minimum score has just
\* passed over channel 0 for a channel of lower score, after escalating
ReusePreferenceSeen ==
    /\ last.op = "allocate"
    /\ last.priority <= MinScore(last.imperfect_channels)
    /\ last.channel = 1
    /\ last.imperfect_channels[0] > last.imperfect_channels[1]
    /\ last.scans > 1

(* ---------------- second allocation at an occupied beam --------------- *)

\* The second request of the scenario has just been processed: code 1 was
\* allocated at ScenarioBeam with baseline priority 0 on the empty grid and
\* got channel 0, then code 2 was requested at ScenarioBeam with baseline
\* priority 0.
ScenarioSecond ==
    /\ last.op = "allocate"
    /\ <<last.i, last.j>> = ScenarioBeam
    /\ last.ucode = 2
    /\ last.priority = 0
    /\ Len(allocated_carriers) = 2
    /\ allocated_carriers[1] =
           [code |-> CarrierCode(ScenarioBeam[1], ScenarioBeam[2], 0, 1),
            priority |-> 0]

\* C11 as claimed: the second allocation sees channel 0 scoring 100,
\* escalates the threshold to 1 and gets channel 1 with final threshold 1.
SecondAllocationEscalates ==
    ScenarioSecond
        => /\ last.imperfect_channels[0] = SelfPenalty
           /\ last.channel = 1
           /\ last.threshold = 1
           /\ last.final_priority = 1

\* C11 as amended: the second allocation sees channel 0 scoring 100 and
\* channel 1 scoring 0, so its first scan, at threshold 0, admits channel 1:
\* it gets channel 1 after one scan, without escalation, final threshold 0.
SecondAllocationDirect ==
    ScenarioSecond
        => /\ last.imperfect_channels[0] = SelfPenalty
           /\ last.imperfect_channels[1] = 0
           /\ last.channel = 1
           /\ last.scans = 1
           /\ last.threshold = 0
           /\ last.final_priority = 0

\* the second allocation of the scenario has happened and holds channel 1
SecondAllocationSeen ==
    /\ ScenarioSecond
    /\ allocated_carriers[2].code =
           CarrierCode(ScenarioBeam[1], ScenarioBeam[2], 1, 2)
    /\ channel_list[ScenarioBeam[1]][ScenarioBeam[2]][0] = 1
    /\ channel_list[ScenarioBeam[1]][ScenarioBeam[2]][1] = 2

(* --------------------------- the neighbourhood ------------------------ *)

\* the beam the latest operation was about
LastBeam == <<last.i, last.j>>

\* the last beam of the range: the highest row and column of InRangeBeams
FarCorner == <<FirstRow + N_I - 1, FirstCol + N_J - 1>>

\* C12: for the centre of every scan (every beam of the range is scanned),
\* create_neighbour_coords gives 18 coordinates, no two of them equal, none
\* of them the centre, and the sequence is the one fixed sequence of
\* offsets (the result for the centre (0, 0)) moved to the centre: it is
\* decided by the centre alone, whatever channel_list and
\* allocated_carriers hold.
NeighbourhoodPurity ==
    last.op = "scan"
        => LET coords == create_neighbour_coords(last.i, last.j)
               offsets == create_neighbour_coords(0, 0)
           IN  /\ Len(coords) = 18
               /\ \A m \in 1 .. Len(coords) : \A n \in 1 .. Len(coords) :
                      coords[m] = coords[n] => m = n
               /\ \A n \in 1 .. Len(coords) : coords[n] # LastBeam
               /\ \A n \in 1 .. Len(coords) :
                      coords[n] = <<last.i + offsets[n][1], last.j + offsets[n][2]>>

\* the first beam of the range has been scanned while one of its
\* neighbours held a carrier on channel 0
NeighbourhoodPuritySeen ==
    /\ last.op = "scan"
    /\ LastBeam = <<FirstRow, FirstCol>>
    /\ last.imperfect_channels[0] = 1

\* C13: for every beam of the range (rows 2..n_i+1, columns 4..n_j+3),
\* every coordinate create_neighbour_coords produces is an index of
\* channel_list, the padded grid (rows 0..n_i+3, columns 0..n_j+7): no scan
\* of a beam of the range reads outside the grid.
NeighboursInPaddedExtent ==
    \A c \in InRangeBeams :
        LET coords == create_neighbour_coords(c[1], c[2])
        IN  \A n \in 1 .. Len(coords) :
                /\ coords[n][1] \in DOMAIN channel_list
                /\ coords[n][2] \in DOMAIN channel_list[coords[n][1]]
                /\ coords[n][1] >= 0
                /\ coords[n][2] >= 0

\* the last beam of the range, whose neighbours reach row n_i+3 and column
\* n_j+7, has been scanned while one of its neighbours held a carrier on
\* channel 0
FarCornerScanned ==
    /\ last.op = "scan"
    /\ LastBeam = FarCorner
    /\ last.imperfect_channels[0] = 1
    /\ create_neighbour_coords(last.i, last.j)[18] = <<N_I + PadRows - 1, last.j + 1>>
    /\ create_neighbour_coords(last.i, last.j)[12] = <<last.i, N_J + PadCols - 1>>

\* channel_list with the only carrier of allocated_carriers held by beam b
\* instead of its own beam
CarrierMovedTo(b) ==
    LET k == SplitCode(allocated_carriers[1].code)
    IN  import_data(<< [i |-> b[1], j |-> b[2], channel |-> k.channel,
                        ucode |-> k.ucode, priority |-> 0] >>).channel_list

\* C20: with one carrier, at beam a, and a scan of beam b just made: b is a
\* neighbour of a exactly when a is a neighbour of b, and the carrier at a
\* adds to the score the scan of b reports for its channel exactly when the
\* same carrier at b would add to the score of a.  (a and b each run over
\* every beam of the range.)
NeighbourSymmetry ==
    (last.op = "scan" /\ Len(allocated_carriers) = 1)
        => LET k == SplitCode(allocated_carriers[1].code)
               a == <<k.i, k.j>>
               b == LastBeam
           IN  /\ (b \in NeighbourSet(a)) <=> (a \in NeighbourSet(b))
               /\ a # b
                    => ((last.imperfect_channels[k.channel] > 0)
                          <=> (ChannelScore(a[1], a[2], CarrierMovedTo(b), k.channel) > 0))

\* a beam has been scanned while the only carrier was at one of its
\* neighbours, and the scan counted it
NeighbourSymmetrySeen ==
    /\ last.op = "scan"
    /\ Len(allocated_carriers) = 1
    /\ LET k == SplitCode(allocated_carriers[1].code)
       IN  /\ <<k.i, k.j>> \in NeighbourSet(LastBeam)
           /\ last.imperfect_channels[k.channel] = 1

(* ------------------------------ round trip ---------------------------- *)

\* the (beam, channel, unique code, priority) tuples of a dict
RegistryTuples(ac) ==
    {<<ac[n].code[1], ac[n].code[2], ac[n].code[3], ac[n].code[4], ac[n].priority>> :
        n \in 1 .. Len(ac)}

\* the records of raw_data enumerated in the order given by order
Reordered(raw_data, order) == [n \in 1 .. Len(raw_data) |-> raw_data[order[n]]]

\* C14: in every state reached by allocations and deallocations, the dict
\* convert_from_raw builds from the records of convert_to_raw, enumerated
\* in any order, has exactly the (beam, channel, unique code, priority)
\* tuples of allocated_carriers.
RoundTrip ==
    \A order \in Permutations(1 .. Len(allocated_carriers)) :
        RegistryTuples(
            convert_from_raw(
                Reordered(convert_to_raw(channel_list, allocated_carriers), order)
            ).allocated_carriers)
          = RegistryTuples(allocated_carriers)

\* a deallocation has left two carriers of different priorities, and
\* reading their records back in the opposite order gives a dict that
\* enumerates them in the opposite order
RoundTripSeen ==
    /\ last.op = "deallocate"
    /\ last.outcome = "ok"
    /\ Len(allocated_carriers) = 2
    /\ allocated_carriers[1].priority # allocated_carriers[2].priority
    /\ convert_from_raw(
           Reordered(convert_to_raw(channel_list, allocated_carriers), <<2, 1>>)
       ).allocated_carriers = <<allocated_carriers[2], allocated_carriers[1]>>

(* ------------------------- reading invalid records -------------------- *)

\* C15: convert_from_raw gives no state for records of which two carry the
\* same unique code, or one has a beam outside the range or a channel
\* outside 0..channels-1.  So whenever it does give a state, the carrier
\* codes of allocated_carriers have different unique codes, no two of them
\* are on one slot (no record overwrote the slot of another), and each has
\* a beam of the range and a channel of the grid.
IngestRejectsInvalid ==
    (last.op = "import" /\ last.outcome = "ok")
        => /\ \A k1 \in Codes(allocated_carriers) : \A k2 \in Codes(allocated_carriers) :
                  /\ k1[4] = k2[4] => k1 = k2
                  /\ (k1[1] = k2[1] /\ k1[2] = k2[2] /\ k1[3] = k2[3]) => k1 = k2
           /\ \A k \in Codes(allocated_carriers) :
                  /\ <<k[1], k[2]>> \in InRangeBeams
                  /\ k[3] \in Chans
           /\ Len(allocated_carriers) = last.scans

(* ------------------------- interleaved requests ----------------------- *)

\* C16: when two requests for one beam are interleaved, their scans and
\* their commits being separate steps, no state is reached in which both
\* are committed to one channel of the beam (the later commit would have
\* been rejected).
NoDoubleCommit ==
    \A m \in 1 .. Len(new_carrier_list) : \A n \in 1 .. Len(new_carrier_list) :
        (/\ m # n
         /\ new_carrier_list[m].pc = "assigned"
         /\ new_carrier_list[n].pc = "assigned"
         /\ new_carrier_list[m].i = new_carrier_list[n].i
         /\ new_carrier_list[m].j = new_carrier_list[n].j)
            => SelectedChannel(new_carrier_list[m].good_channels)
                   # SelectedChannel(new_carrier_list[n].good_channels)

(* ------------------------ the value of an empty slot ------------------ *)

\* C17: no carrier of allocated_carriers has the unique code 0, the value
\* channel_list holds for an unallocated slot.
NoSentinelOccupant ==
    \A k \in Codes(allocated_carriers) : k[4] # 0

(* --------------------------- the channel assigned --------------------- *)

\* C18: the channel an allocation is given is good_channels[0] of the scan
\* that ended the loop: its score on the grid the request was processed on
\* is within the threshold of that scan, the score of every channel of
\* lower index is not, and the carrier is entered under that channel.
AssignedIsFirstAdmissible ==
    [][last'.op = "allocate"
          => LET score == [c \in Chans |->
                             InterferenceScore(ManagerGrid, <<last'.i, last'.j>>, c)]
             IN  /\ last'.channel = last'.good_channels[1]
                 /\ score[last'.channel] <= last'.threshold
                 /\ \A c \in Chans :
                        c < last'.channel => score[c] > last'.threshold
                 /\ LastCode' \in Codes(allocated_carriers')]_vars

\* an allocation has escalated up to the score of channel 1 and got that
\* channel, channel 0 being held in the beam itself
AssignedIsFirstAdmissibleSeen ==
    /\ last.op = "allocate"
    /\ last.channel = 1
    /\ last.threshold >= 1
    /\ last.imperfect_channels[1] = last.threshold
    /\ last.imperfect_channels[0] >= SelfPenalty
    /\ last.good_channels = <<1>>

(* -------------------- channel_list and allocated_carriers ------------- *)

\* the carrier codes of allocated_carriers on channel c of beam (i, j)
KeysOfSlot(i, j, c) ==
    {k \in Codes(allocated_carriers) : k[1] = i /\ k[2] = j /\ k[3] = c}

\* C19: in every state reached by allocations and deallocations, a slot of
\* channel_list is not 0 exactly when allocated_carriers has exactly one
\* carrier code of that beam and channel, and then the slot holds the
\* unique code of that carrier code.
GridRegistryConsistent ==
    \A i \in Rows : \A j \in Cols : \A c \in Chans :
        /\ (channel_list[i][j][c] # 0) <=> (Cardinality(KeysOfSlot(i, j, c)) = 1)
        /\ \A k \in KeysOfSlot(i, j, c) :
               Cardinality(KeysOfSlot(i, j, c)) = 1 => channel_list[i][j][c] = k[4]

====
